---- MODULE Spec2Model ----
(***************************************************************************)
(* A model of the joba-api backend: the users collection with its two      *)
(* authentication stacks (core.auth behind routers/auth.py, and            *)
(* services.auth.AuthService over repositories.base.Repository), the JWT   *)
(* access/refresh tokens, and the cover letters with their "one active     *)
(* letter per user" rule.                                                  *)
(*                                                                         *)
(* Several specifications share the variables:                             *)
(*   Spec      sequential requests on the users collection                 *)
(*   SpecConc  signup requests interleaved at their await points           *)
(*   SpecTok   token issue, clock, get_current_user, refresh               *)
(*   SpecCL    sequential cover letter requests                            *)
(*   SpecRace  two activate calls interleaved at their await points        *)
(***************************************************************************)
EXTENDS Integers, Sequences, FiniteSets, TLC

VARIABLES users, resp, signinLog, reqs, now, jumps, issued, letters, calls,
          db, lastId, blobs, api

\* The document collections the routers work on, the ids handed out in each
\* of them, and the GridFS bucket.
docVars == <<db, lastId, blobs>>

vars == <<users, resp, signinLog, reqs, now, jumps, issued, letters, calls,
          db, lastId, blobs, api>>

\* ------------------------------------------------------------------ bounds

\* The users collection holds at most MaxUsers documents.
MaxUsers == 2

\* Signup requests in flight at the same time.
MaxReqs == 2

\* The clock counts ticks; a second has TicksPerSecond of them.
TicksPerSecond == 2

\* The clock is advanced at most MaxJumps times.
MaxJumps == 2

\* Tokens issued in one run.
MaxIssued == 4

\* The cover_letters collection holds at most MaxLetters documents.
MaxLetters == 3

\* Activate calls in flight at the same time.
MaxCalls == 2

\* The documents ever inserted into resumes, cover_letters and job_queries
\* together, and the files ever uploaded to GridFS.
MaxDocs == 3

\* The documents ever inserted into job_flows.
MaxFlows == 1

\* The pieces of a model reply.
MaxTextLen == 5

\* The letters in the collection while activate calls race.
MaxRaceLetters == 2

\* The pages a list request asks for.
MaxPage == 3

\* The page sizes a list request asks for.
MaxPerPage == 3

\* ------------------------------------------------------------------ inputs

\* None, and the empty string: both are falsy in `if user.username`.
NoValue == ""

Emails == {"a@x.io", "b@x.io"}

\* A username is any string: it may have the shape of an email.
Usernames == {"ann", "a@x.io"}

Passwords == {"Pw1", "Pw2"}

Logins == Emails \cup Usernames

Stacks == {"core", "service"}

\* ------------------------------------------------------- password hashing

\* pwd_context.hash: one-way; the model keeps the plain text inside the digest
\* only so that verify can be computed.
get_password_hash(password) == <<"bcrypt", password>>

verify_password(plain_password, hashed_password) ==
    hashed_password = get_password_hash(plain_password)

\* ------------------------------------------------------- users collection

\* insert_one: the new document gets a fresh _id.
NewUserDoc(email, username, password) ==
    [id |-> Len(users) + 1, email |-> email, username |-> username,
     password |-> get_password_hash(password)]

\* The documents matching {"email": email}.
ByEmail(email) == {i \in DOMAIN users : users[i].email = email}

\* The documents matching {"username": username}.
ByUsername(username) == {i \in DOMAIN users : users[i].username = username}

\* The documents matching {"$or": [{"email": login}, {"username": login}]}.
ByLogin(login) == ByEmail(login) \cup ByUsername(login)

\* --------------------------------------------------- repositories.base

\* Repository._get_sensitive_fields for UserInDB: the fields whose description
\* mentions "sensitive".
SensitiveFields == {"password"}

\* UserInDB: the fields without a default.
RequiredFields == {"id", "email", "password"}

\* Repository._convert_mongo_doc: sensitive fields are popped unless asked for;
\* a missing required sensitive field is left missing.
ConvertMongoDoc(doc, include_sensitive) ==
    IF include_sensitive
    THEN doc
    ELSE [f \in (DOMAIN doc) \ SensitiveFields |-> doc[f]]

\* self.model(**doc): pydantic rejects a document without a required field.
ModelAccepts(doc) == RequiredFields \subseteq DOMAIN doc

\* Repository.list over the documents `found`: every document is converted and
\* validated; any exception becomes DatabaseError (500).
RepoList(found, include_sensitive) ==
    IF \A i \in found : ModelAccepts(ConvertMongoDoc(users[i], include_sensitive))
    THEN [ok |-> TRUE, items |-> found]
    ELSE [ok |-> FALSE, items |-> {}]

\* ------------------------------------------------------------------ tokens

\* core/auth.py
ACCESS_TOKEN_EXPIRE_HOURS == 24

\* core/auth.py
REFRESH_TOKEN_EXPIRE_DAYS == 7

\* timedelta values, in ticks.
Seconds(n) == n * TicksPerSecond

Minutes(n) == Seconds(60 * n)

Hours(n) == Minutes(60 * n)

Days(n) == Hours(24 * n)

\* timegm(dt.utctimetuple()): a datetime as whole seconds, the fraction dropped.
Timestamp(ticks) == ticks \div TicksPerSecond

\* str(user.id) as a token subject.
SubjectOf(id) == [kind |-> "oid", id |-> id]

\* jwt.encode(to_encode, SECRET_KEY, algorithm=ALGORITHM): the claims signed
\* with the server's key; a datetime "exp" is stored as a timestamp.
JwtEncode(sub, expire) == [sig |-> TRUE, sub |-> sub, exp |-> Timestamp(expire)]

\* A decoder that does not look at "exp".
JwtDecode_NoExpiry(token, at) == [ok |-> token.sig, sub |-> token.sub]

\* jwt.decode(token, SECRET_KEY, algorithms=[ALGORITHM]) at clock `at`:
\* JWTError on a bad signature, and on exp < the current timestamp.
JwtDecode(token, at) ==
    [ok |-> token.sig /\ ~(token.exp < Timestamp(at)), sub |-> token.sub]

\* core.auth.create_access_token(data={"sub": sub}, expires_delta).
create_access_token(sub, expires_delta) == JwtEncode(sub, now + expires_delta)

\* core.auth.create_refresh_token(data={"sub": sub}).
create_refresh_token(sub) == JwtEncode(sub, now + Days(REFRESH_TOKEN_EXPIRE_DAYS))

\* The pair of tokens signup and signin return for the user `id`, each with
\* the time of issue and the lifetime it was given.
IssuePair(id) ==
    {[tok |-> create_access_token(SubjectOf(id), Hours(ACCESS_TOKEN_EXPIRE_HOURS)),
      kind |-> "access", t0 |-> now, ttl |-> Hours(ACCESS_TOKEN_EXPIRE_HOURS)],
     [tok |-> create_refresh_token(SubjectOf(id)),
      kind |-> "refresh", t0 |-> now, ttl |-> Days(REFRESH_TOKEN_EXPIRE_DAYS)]}

\* ------------------------------------------------------------- create_user

\* core.auth.create_user: the outcome on the current collection.
CoreCreateUserStatus(email, username) ==
    IF ByEmail(email) # {}
    THEN [status |-> 409, detail |-> "Email already registered"]
    ELSE IF username # NoValue /\ ByUsername(username) # {}
    THEN [status |-> 409, detail |-> "Username already taken"]
    ELSE [status |-> 200, detail |-> "created"]

\* AuthService.create_user: the two uniqueness checks go through
\* Repository.list(..., include_sensitive=False).
ServiceCreateUserStatus(email, username) ==
    LET byEmail == RepoList(ByEmail(email), FALSE)
        byName  == RepoList(ByUsername(username), FALSE)
    IN  IF ~byEmail.ok
        THEN [status |-> 500, detail |-> "Failed to list users"]
        ELSE IF byEmail.items # {}
        THEN [status |-> 401, detail |-> "Email already registered"]
        ELSE IF username # NoValue /\ ~byName.ok
        THEN [status |-> 500, detail |-> "Failed to list users"]
        ELSE IF username # NoValue /\ byName.items # {}
        THEN [status |-> 401, detail |-> "Username already taken"]
        ELSE [status |-> 200, detail |-> "created"]

CreateUserStatus(stack, email, username) ==
    IF stack = "core"
    THEN CoreCreateUserStatus(email, username)
    ELSE ServiceCreateUserStatus(email, username)

\* A signup request handled without interleaving: routers/auth.py signup
\* (create_user, then the two tokens) or api/endpoints/auth.py signup (the
\* user alone).
Signup(stack, email, username, password) ==
    LET out == CreateUserStatus(stack, email, username)
        new == IF stack = "core" /\ out.status = 200
               THEN IssuePair(Len(users) + 1)
               ELSE {}
    IN  /\ out.status = 200 => Len(users) < MaxUsers
        /\ Cardinality(issued \cup new) <= MaxIssued
        /\ issued' = issued \cup new
        /\ users' = IF out.status = 200
                    THEN Append(users, NewUserDoc(email, username, password))
                    ELSE users
        /\ resp' = [op |-> "signup", stack |-> stack, email |-> email,
                    username |-> username, password |-> password,
                    status |-> out.status, detail |-> out.detail, pre |-> users]
        /\ UNCHANGED <<signinLog, reqs, now, jumps, letters, calls, docVars, api>>

\* ------------------------------------------------------- authenticate_user

\* A variant that tells the caller the login is unknown.
NoUserFailure_Enumerating ==
    [status |-> 404, detail |-> "User not found", headers |-> ""]

\* core.auth.authenticate_user, no document matches the login.
NoUserFailure ==
    [status |-> 401, detail |-> "Incorrect login or password",
     headers |-> "WWW-Authenticate: Bearer"]

\* core.auth.authenticate_user, the stored hash does not verify.
BadPasswordFailure ==
    [status |-> 401, detail |-> "Incorrect login or password",
     headers |-> "WWW-Authenticate: Bearer"]

\* core.auth.authenticate_user on the document find_one returned (0: none).
AuthenticateUser(found, password) ==
    IF found = 0
    THEN NoUserFailure @@ [user |-> 0]
    ELSE IF ~verify_password(password, users[found].password)
    THEN BadPasswordFailure @@ [user |-> 0]
    ELSE [status |-> 200, detail |-> "bearer", headers |-> "", user |-> users[found].id]

\* What find_one may return for a filter matching the documents `found`: one of
\* them (no sort is given, the store picks), or 0 for None.
FindOne(found) == IF found = {} THEN {0} ELSE found

\* routers/auth.py signin: HTTPException from authenticate_user is re-raised
\* as it is; on success the two tokens are issued.
Signin(login, password) ==
    \E found \in FindOne(ByLogin(login)) :
        LET out == AuthenticateUser(found, password)
            new == IF out.status = 200 THEN IssuePair(out.user) ELSE {}
        IN  /\ Cardinality(issued \cup new) <= MaxIssued
            /\ issued' = issued \cup new
            /\ resp' = [op |-> "signin", login |-> login, password |-> password,
                        status |-> out.status, detail |-> out.detail,
                        headers |-> out.headers, user |-> out.user]
            /\ signinLog' = IF out.status = 200
                            THEN signinLog
                            ELSE signinLog \cup
                                 {[known |-> ByLogin(login) # {}, status |-> out.status,
                                   detail |-> out.detail, headers |-> out.headers]}
            /\ UNCHANGED <<users, reqs, now, jumps, letters, calls, docVars, api>>

\* ------------------------------------------------------ check_availability

\* core.auth.check_availability.
CoreCheckAvailability(email, username) ==
    IF email = NoValue /\ username = NoValue
    THEN [status |-> 200, available |-> FALSE,
          message |-> "No email or username provided"]
    ELSE IF email # NoValue /\ ByEmail(email) # {}
    THEN [status |-> 200, available |-> FALSE, message |-> "Email already registered"]
    ELSE IF username # NoValue /\ ByUsername(username) # {}
    THEN [status |-> 200, available |-> FALSE, message |-> "Username already taken"]
    ELSE [status |-> 200, available |-> TRUE, message |-> "Available"]

\* The documents matching AuthService.check_availability's query: one filter
\* with a key for every supplied field.
ByQuery(email, username) ==
    {i \in DOMAIN users :
        /\ email # NoValue => users[i].email = email
        /\ username # NoValue => users[i].username = username}

\* AuthService.check_availability.
ServiceCheckAvailability(email, username) ==
    LET existing == RepoList(ByQuery(email, username), FALSE)
    IN  IF email = NoValue /\ username = NoValue
        THEN [status |-> 200, available |-> FALSE,
              message |-> "At least one field (email or username) must be provided"]
        ELSE IF ~existing.ok
        THEN [status |-> 500, available |-> FALSE, message |-> "Failed to list users"]
        ELSE IF existing.items = {}
        THEN [status |-> 200, available |-> TRUE,
              message |-> "All checked fields are available"]
        ELSE [status |-> 200, available |-> FALSE,
              message |-> "Following fields are already taken"]

CheckAvailability(stack, email, username) ==
    LET out == IF stack = "core"
               THEN CoreCheckAvailability(email, username)
               ELSE ServiceCheckAvailability(email, username)
    IN  /\ resp' = [op |-> "check", stack |-> stack, email |-> email,
                    username |-> username, status |-> out.status,
                    available |-> out.available, message |-> out.message]
        /\ UNCHANGED <<users, signinLog, reqs, now, jumps, issued, letters, calls, docVars, api>>

\* --------------------------------------------------------------- Spec

Init ==
    /\ users = <<>>
    /\ resp = [op |-> "none"]
    /\ signinLog = {}
    /\ reqs = <<>>
    /\ now = 0
    /\ jumps = 0
    /\ issued = {}
    /\ letters = <<>>
    /\ calls = <<>>
    /\ db = [coll \in {"resumes", "cover_letters", "job_queries", "job_flows"}
                |-> {}]
    /\ lastId = [coll \in {"resumes", "cover_letters", "job_queries",
                            "job_flows", "fs"} |-> 0]
    /\ blobs = {}
    /\ api = [outcomes |-> <<"200", "200", "200">>, text |-> <<>>]

SignupStep ==
    \E stack \in Stacks, email \in Emails, username \in Usernames \cup {NoValue},
       password \in Passwords :
        Signup(stack, email, username, password)

SigninStep == \E login \in Logins, password \in Passwords : Signin(login, password)

CheckAvailabilityStep ==
    \E stack \in Stacks, email \in Emails \cup {NoValue},
       username \in Usernames \cup {NoValue} :
        CheckAvailability(stack, email, username)

Next == SignupStep \/ SigninStep \/ CheckAvailabilityStep

Spec == Init /\ [][Next]_vars

\* ------------------------------------------------- interleaved signups

\* A signup request is a coroutine: every await on the store (find_one, find,
\* insert_one) is a point where another request may run.  reqs[r].pc is the
\* await the request r is suspended at.
ReqIds == 1..MaxReqs

\* The request arrives: create_user is entered.
ReqStart(r, stack, email, username, password) ==
    /\ r = Len(reqs) + 1
    /\ r \in ReqIds
    /\ reqs' = Append(reqs, [pc |-> "check_email", stack |-> stack, email |-> email,
                             username |-> username, password |-> password,
                             status |-> 0])
    /\ UNCHANGED <<users, resp, signinLog, now, jumps, issued, letters, calls, docVars, api>>

\* The outcome of the email lookup: core find_one({"email": ...}), service
\* Repository.list({"email": ...}, include_sensitive=False).
EmailCheckStatus(stack, email) ==
    IF stack = "core"
    THEN IF ByEmail(email) # {} THEN 409 ELSE 0
    ELSE IF ~RepoList(ByEmail(email), FALSE).ok THEN 500
    ELSE IF RepoList(ByEmail(email), FALSE).items # {} THEN 401
    ELSE 0

\* The outcome of the username lookup.
UsernameCheckStatus(stack, username) ==
    IF stack = "core"
    THEN IF ByUsername(username) # {} THEN 409 ELSE 0
    ELSE IF ~RepoList(ByUsername(username), FALSE).ok THEN 500
    ELSE IF RepoList(ByUsername(username), FALSE).items # {} THEN 401
    ELSE 0

\* The email lookup returns.
ReqCheckEmail(r) ==
    /\ r \in DOMAIN reqs
    /\ reqs[r].pc = "check_email"
    /\ LET st == EmailCheckStatus(reqs[r].stack, reqs[r].email)
       IN  reqs' = [reqs EXCEPT ![r].status = st,
                                ![r].pc = IF st # 0 THEN "done"
                                          ELSE IF reqs[r].username # NoValue
                                          THEN "check_username"
                                          ELSE "insert"]
    /\ UNCHANGED <<users, resp, signinLog, now, jumps, issued, letters, calls, docVars, api>>

\* The username lookup returns.
ReqCheckUsername(r) ==
    /\ r \in DOMAIN reqs
    /\ reqs[r].pc = "check_username"
    /\ LET st == UsernameCheckStatus(reqs[r].stack, reqs[r].username)
       IN  reqs' = [reqs EXCEPT ![r].status = st,
                                ![r].pc = IF st # 0 THEN "done" ELSE "insert"]
    /\ UNCHANGED <<users, resp, signinLog, now, jumps, issued, letters, calls, docVars, api>>

\* insert_one: nothing is looked up again before the write, and the users
\* collection has no unique index.
ReqInsert(r) ==
    /\ r \in DOMAIN reqs
    /\ reqs[r].pc = "insert"
    /\ Len(users) < MaxUsers
    /\ users' = Append(users, NewUserDoc(reqs[r].email, reqs[r].username,
                                         reqs[r].password))
    /\ reqs' = [reqs EXCEPT ![r].status = 200, ![r].pc = "done"]
    /\ UNCHANGED <<resp, signinLog, now, jumps, issued, letters, calls, docVars, api>>

ReqStartStep ==
    \E r \in ReqIds, stack \in Stacks, email \in Emails,
       username \in Usernames \cup {NoValue}, password \in Passwords :
        ReqStart(r, stack, email, username, password)

ReqCheckEmailStep == \E r \in ReqIds : ReqCheckEmail(r)

ReqCheckUsernameStep == \E r \in ReqIds : ReqCheckUsername(r)

ReqInsertStep == \E r \in ReqIds : ReqInsert(r)

NextConc == ReqStartStep \/ ReqCheckEmailStep \/ ReqCheckUsernameStep \/ ReqInsertStep

SpecConc == Init /\ [][NextConc]_vars

\* ------------------------------------------------- token-bearing requests

\* ObjectId(user_id) raises InvalidId unless the string is a well-formed id.
WellFormedId(sub) == sub.kind = "oid"

\* db.users.find_one({"_id": ObjectId(user_id)}) finds a document.
UserExists(sub) == sub.kind = "oid" /\ sub.id \in DOMAIN users

\* No token: the value of a response that carries none.
NoToken == [sig |-> FALSE, sub |-> [kind |-> "none", id |-> 0], exp |-> 0]

\* core.auth.get_current_user: every failure is credentials_exception (401).
get_current_user(token) ==
    LET payload == JwtDecode(token, now)
    IN  IF ~payload.ok \/ payload.sub.kind = "none"
        THEN [status |-> 401, user |-> 0]
        ELSE IF ~WellFormedId(payload.sub) \/ ~UserExists(payload.sub)
        THEN [status |-> 401, user |-> 0]
        ELSE [status |-> 200, user |-> users[payload.sub.id].id]

\* A refresh that signs the new token for the wrong subject.
refresh_access_token_WrongSubject(refresh_token) ==
    LET payload == JwtDecode(refresh_token, now)
    IN  IF ~payload.ok
        THEN [status |-> 401, access |-> NoToken, ttl |-> 0]
        ELSE IF payload.sub.kind = "none" \/ ~WellFormedId(payload.sub)
                \/ ~UserExists(payload.sub)
        THEN [status |-> 500, access |-> NoToken, ttl |-> 0]
        ELSE [status |-> 200,
              access |-> create_access_token(SubjectOf(payload.sub.id + 1),
                                             Hours(ACCESS_TOKEN_EXPIRE_HOURS)),
              ttl |-> Hours(ACCESS_TOKEN_EXPIRE_HOURS)]

\* core.auth.refresh_access_token: JWTError becomes 401; the HTTPException
\* (401) raised inside the try block for a missing subject or a missing user,
\* and InvalidId from ObjectId, are caught by `except Exception` and become 500.
refresh_access_token(refresh_token) ==
    LET payload == JwtDecode(refresh_token, now)
    IN  IF ~payload.ok
        THEN [status |-> 401, access |-> NoToken, ttl |-> 0]
        ELSE IF payload.sub.kind = "none" \/ ~WellFormedId(payload.sub)
                \/ ~UserExists(payload.sub)
        THEN [status |-> 500, access |-> NoToken, ttl |-> 0]
        ELSE [status |-> 200,
              access |-> create_access_token(payload.sub,
                                             Hours(ACCESS_TOKEN_EXPIRE_HOURS)),
              ttl |-> Hours(ACCESS_TOKEN_EXPIRE_HOURS)]

\* core/config.py Settings
Settings_ACCESS_TOKEN_EXPIRE_HOURS == 24

\* Repository.get(id, include_sensitive): InvalidId, NotFoundError and a
\* rejected document all leave through `except Exception` as DatabaseError.
RepoGet(sub, include_sensitive) ==
    IF ~WellFormedId(sub) \/ ~UserExists(sub)
    THEN [ok |-> FALSE, id |-> 0]
    ELSE IF ~ModelAccepts(ConvertMongoDoc(users[sub.id], include_sensitive))
    THEN [ok |-> FALSE, id |-> 0]
    ELSE [ok |-> TRUE, id |-> users[sub.id].id]

\* AuthService.refresh_access_token: only JWTError is caught; the new token's
\* lifetime is timedelta(minutes=settings.ACCESS_TOKEN_EXPIRE_HOURS).
ServiceRefreshAccessToken(refresh_token) ==
    LET payload == JwtDecode(refresh_token, now)
    IN  IF ~payload.ok \/ payload.sub.kind = "none"
        THEN [status |-> 401, access |-> NoToken, ttl |-> 0]
        ELSE IF ~RepoGet(payload.sub, TRUE).ok
        THEN [status |-> 500, access |-> NoToken, ttl |-> 0]
        ELSE [status |-> 200,
              access |-> create_access_token(payload.sub,
                                             Minutes(Settings_ACCESS_TOKEN_EXPIRE_HOURS)),
              ttl |-> Minutes(Settings_ACCESS_TOKEN_EXPIRE_HOURS)]

\* Tokens a caller may hold that this run did not issue: signed with the same
\* key or not, for any subject, expired or not.
ForeignSubjects ==
    {SubjectOf(MaxUsers + 1), [kind |-> "malformed", id |-> 0],
     [kind |-> "none", id |-> 0]}

ForeignTokens ==
    {[sig |-> TRUE, sub |-> sub, exp |-> Timestamp(now) + 1] : sub \in ForeignSubjects}
        \cup {[sig |-> FALSE, sub |-> SubjectOf(1), exp |-> Timestamp(now) + 1]}

Presentable == {t.tok : t \in issued} \cup ForeignTokens

\* GET /me with the bearer token `token`.
CurrentUser(token) ==
    LET out == get_current_user(token)
    IN  /\ resp' = [op |-> "current_user", token |-> token,
                    status |-> out.status, user |-> out.user]
        /\ UNCHANGED <<users, signinLog, reqs, now, jumps, issued, letters, calls, docVars, api>>

\* POST /refresh with `token`: routers/auth.py refresh_token re-raises the
\* HTTPException; on success the new access token goes to the caller.
Refresh(stack, token) ==
    LET out == IF stack = "core"
               THEN refresh_access_token(token)
               ELSE ServiceRefreshAccessToken(token)
        new == IF out.status = 200
               THEN {[tok |-> out.access, kind |-> "access", t0 |-> now,
                      ttl |-> out.ttl]}
               ELSE {}
    IN  /\ Cardinality(issued \cup new) <= MaxIssued
        /\ issued' = issued \cup new
        /\ resp' = [op |-> "refresh", stack |-> stack, token |-> token,
                    status |-> out.status, access |-> out.access]
        /\ UNCHANGED <<users, signinLog, reqs, now, jumps, letters, calls, docVars, api>>

\* The clock moves on: by a tick, or by the lifetime of a token.
ClockSteps == {1, Hours(ACCESS_TOKEN_EXPIRE_HOURS), Days(REFRESH_TOKEN_EXPIRE_DAYS)}

\* resp is the response of the request just served: none while time passes.
Advance(d) ==
    /\ jumps < MaxJumps
    /\ jumps' = jumps + 1
    /\ now' = now + d
    /\ resp' = [op |-> "none"]
    /\ UNCHANGED <<users, signinLog, reqs, issued, letters, calls, docVars, api>>

TokSignupStep == \E email \in Emails : Signup("core", email, NoValue, "Pw1")

CurrentUserStep == \E token \in Presentable : CurrentUser(token)

RefreshStep == \E stack \in Stacks, token \in Presentable : Refresh(stack, token)

AdvanceStep == \E d \in ClockSteps : Advance(d)

NextTok ==
    TokSignupStep \/ CurrentUserStep \/ RefreshStep \/ AdvanceStep

SpecTok == Init /\ [][NextTok]_vars

\* ----------------------------------------------------------- cover letters

\* The callers' user ids.
Owners == {"u1", "u2"}

\* CoverLetterUpdate.active: Optional[bool].
ActiveArgs == {"true", "false", "none"}

\* The user's letters that are marked active in `docs`.
ActiveOf(docs, user_id) ==
    {i \in DOMAIN docs : docs[i].user_id = user_id /\ docs[i].active}

\* A deactivation whose filter matches no document.
DeactivateOthers_NoMatch(docs, user_id, exclude_id) == docs

\* A deactivation that forgets the user_id filter.
DeactivateOthers_AnyUser(docs, user_id, exclude_id) ==
    [i \in DOMAIN docs |->
        IF docs[i].id # exclude_id /\ docs[i].active
        THEN [docs[i] EXCEPT !.active = FALSE]
        ELSE docs[i]]

\* CoverLetterRepository.deactivate_other_cover_letters: update_many over
\* {"user_id": user_id, "_id": {"$ne": exclude_id}, "active": True}.
DeactivateOthers(docs, user_id, exclude_id) ==
    [i \in DOMAIN docs |->
        IF docs[i].user_id = user_id /\ docs[i].id # exclude_id /\ docs[i].active
        THEN [docs[i] EXCEPT !.active = FALSE]
        ELSE docs[i]]

\* Repository.create: insert_one gives the document a fresh _id.
InsertLetter(docs, user_id, active) ==
    Append(docs, [id |-> Len(docs) + 1, user_id |-> user_id, active |-> active])

\* Repository.update: find_one_and_update with {"$set": data}; data holds the
\* fields of the update that are not None.
SetLetter(docs, id, active) ==
    [i \in DOMAIN docs |->
        IF docs[i].id = id /\ active # "none"
        THEN [docs[i] EXCEPT !.active = (active = "true")]
        ELSE docs[i]]

\* CoverLetterService.create_cover_letter, without interleaving.  store_ok is
\* whether the store carries out update_many; when it raises, the letter just
\* inserted stays and the call fails with DatabaseError.
CreateCoverLetter(user_id, active, store_ok) ==
    LET inserted == InsertLetter(letters, user_id, active)
        new_id   == Len(letters) + 1
    IN  /\ Len(letters) < MaxLetters
        /\ letters' = IF active /\ store_ok
                      THEN DeactivateOthers(inserted, user_id, new_id)
                      ELSE inserted
        /\ resp' = [op |-> "create_cover_letter", user_id |-> user_id,
                    target |-> new_id,
                    active |-> IF active THEN "true" ELSE "false",
                    status |-> IF active /\ ~store_ok THEN 500 ELSE 200,
                    pre |-> letters]
        /\ UNCHANGED <<users, signinLog, reqs, now, jumps, issued, calls, docVars, api>>

\* CoverLetterService.update_cover_letter, without interleaving: a missing
\* letter and a letter of another user both end as DatabaseError (the
\* NotFoundError is raised inside the try block).
UpdateCoverLetter(user_id, id, active, store_ok) ==
    LET owned   == id \in DOMAIN letters /\ letters[id].user_id = user_id
        updated == SetLetter(letters, id, active)
    IN  /\ letters' = IF ~owned THEN letters
                      ELSE IF active = "true" /\ store_ok
                      THEN DeactivateOthers(updated, user_id, id)
                      ELSE updated
        /\ resp' = [op |-> "update_cover_letter", user_id |-> user_id,
                    target |-> id, active |-> active,
                    status |-> IF ~owned \/ (active = "true" /\ ~store_ok)
                               THEN 500 ELSE 200,
                    pre |-> letters]
        /\ UNCHANGED <<users, signinLog, reqs, now, jumps, issued, calls, docVars, api>>

CreateCoverLetterStep ==
    \E user_id \in Owners, active \in BOOLEAN, store_ok \in BOOLEAN :
        CreateCoverLetter(user_id, active, store_ok)

UpdateCoverLetterStep ==
    \E user_id \in Owners, id \in 1..MaxLetters, active \in ActiveArgs,
       store_ok \in BOOLEAN :
        UpdateCoverLetter(user_id, id, active, store_ok)

NextCL == CreateCoverLetterStep \/ UpdateCoverLetterStep

SpecCL == Init /\ [][NextCL]_vars

\* ------------------------------------------------ interleaved activations

\* An activate call is a coroutine too: calls[c].pc is the await it is
\* suspended at.  update_cover_letter: get, update, update_many;
\* create_cover_letter: insert_one, update_many.
CallIds == 1..MaxCalls

\* The request arrives.
CallBegin(kind, user_id, target) ==
    /\ Len(calls) < MaxCalls
    /\ calls' = Append(calls, [pc |-> IF kind = "update" THEN "get" ELSE "write",
                               kind |-> kind, user_id |-> user_id,
                               target |-> IF kind = "update" THEN target ELSE 0,
                               status |-> 0])
    /\ UNCHANGED <<users, resp, signinLog, reqs, now, jumps, issued, letters, docVars, api>>

\* update_cover_letter: repository.get and the ownership test.
CallGet(c) ==
    /\ c \in DOMAIN calls
    /\ calls[c].pc = "get"
    /\ LET owned == /\ calls[c].target \in DOMAIN letters
                    /\ letters[calls[c].target].user_id = calls[c].user_id
       IN  calls' = [calls EXCEPT ![c].pc = IF owned THEN "write" ELSE "done",
                                  ![c].status = IF owned THEN 0 ELSE 500]
    /\ UNCHANGED <<users, resp, signinLog, reqs, now, jumps, issued, letters, docVars, api>>

\* The write of the target: repository.create(data) with active=True, or
\* repository.update(cover_letter_id, data) with active=True.
CallWrite(c) ==
    /\ c \in DOMAIN calls
    /\ calls[c].pc = "write"
    /\ IF calls[c].kind = "create"
       THEN /\ Len(letters) < MaxRaceLetters
            /\ letters' = InsertLetter(letters, calls[c].user_id, TRUE)
            /\ calls' = [calls EXCEPT ![c].pc = "deactivate",
                                      ![c].target = Len(letters) + 1]
       ELSE /\ letters' = SetLetter(letters, calls[c].target, "true")
            /\ calls' = [calls EXCEPT ![c].pc = "deactivate"]
    /\ UNCHANGED <<users, resp, signinLog, reqs, now, jumps, issued, docVars, api>>

\* The bulk deactivation of the others; the call then returns the letter.
CallDeactivate(c) ==
    /\ c \in DOMAIN calls
    /\ calls[c].pc = "deactivate"
    /\ letters' = DeactivateOthers(letters, calls[c].user_id, calls[c].target)
    /\ calls' = [calls EXCEPT ![c].pc = "done", ![c].status = 200]
    /\ UNCHANGED <<users, resp, signinLog, reqs, now, jumps, issued, docVars, api>>

\* Letters created beforehand, each by a request that ran alone.
SetupStep ==
    \E user_id \in Owners, active \in BOOLEAN, store_ok \in BOOLEAN :
        /\ calls = <<>>
        /\ Len(letters) < MaxRaceLetters
        /\ CreateCoverLetter(user_id, active, store_ok)

CallBeginStep ==
    \E kind \in {"create", "update"}, user_id \in Owners,
       target \in 1..MaxRaceLetters :
        CallBegin(kind, user_id, target)

CallGetStep == \E c \in CallIds : CallGet(c)

CallWriteStep == \E c \in CallIds : CallWrite(c)

CallDeactivateStep == \E c \in CallIds : CallDeactivate(c)

NextRace ==
    SetupStep \/ CallBeginStep \/ CallGetStep \/ CallWriteStep \/ CallDeactivateStep

SpecRace == Init /\ [][NextRace]_vars

\* ------------------------------------------------ document collections

\* The collections the routers read and write through get_db().
Collections == {"resumes", "cover_letters", "job_queries", "job_flows"}

\* ResumeStatus, CoverLetterStatus, JobQueryStatus and JobFlowStatus as the
\* request models of the routers accept them.
Statuses == {"active", "archived"}

\* The ids a request may address in a collection: the ids it has handed out
\* and one it has not.
DocIds(coll) == 1..(lastId[coll] + 1)

\* db.<coll>.find_one({"_id": ObjectId(id)}): the set holding the match.
find_one(coll, id) == {d \in db[coll] : d.id = id}

\* The ownership lookup without its user_id condition.
find_owned_AnyOwner(coll, id, user_id) == {d \in db[coll] : d.id = id}

\* db.<coll>.find_one({"_id": ObjectId(id), "user_id": str(current_user.id)}).
find_owned(coll, id, user_id) ==
    {d \in db[coll] : d.id = id /\ d.user_id = user_id}

\* Documents inserted so far into the three collections a job flow refers to.
DocCount == lastId["resumes"] + lastId["cover_letters"] + lastId["job_queries"]

\* insert_one: the document gets the next _id of its collection.
insert_one(coll, doc) ==
    /\ db' = [db EXCEPT ![coll] = @ \cup {doc}]
    /\ lastId' = [lastId EXCEPT ![coll] = @ + 1]

\* routers.resumes.upload_resume for a .pdf, .doc or .docx file:
\* save_file_content stores the file, process_resume analyses it and the
\* resume document is inserted.  When the store fails nothing is written;
\* when the analysis fails the file stays in GridFS without a document.
upload_resume(user_id, status, saved, processed) ==
    LET file_id == lastId["fs"] + 1
        id      == lastId["resumes"] + 1
    IN  /\ DocCount < MaxDocs
        /\ lastId["fs"] < MaxDocs
        /\ IF ~saved
           THEN UNCHANGED <<db, lastId, blobs>>
           ELSE IF ~processed
           THEN /\ blobs' = blobs \cup {file_id}
                /\ lastId' = [lastId EXCEPT !["fs"] = file_id]
                /\ db' = db
           ELSE /\ blobs' = blobs \cup {file_id}
                /\ db' = [db EXCEPT !["resumes"] = @ \cup
                              {[id |-> id, user_id |-> user_id,
                                status |-> status, file_id |-> file_id]}]
                /\ lastId' = [lastId EXCEPT !["fs"] = file_id,
                                            !["resumes"] = id]
        /\ resp' = [op |-> "upload_resume", caller |-> user_id,
                    status |-> IF saved /\ processed THEN 200 ELSE 500]
        /\ UNCHANGED <<users, signinLog, reqs, now, jumps, issued, letters, calls, api>>

\* routers.cover_letters.create_cover_letter: the document is the request
\* body (name, content, status) with user_id and the two timestamps.
create_cover_letter(user_id, status) ==
    /\ DocCount < MaxDocs
    /\ insert_one("cover_letters",
                  [id |-> lastId["cover_letters"] + 1, user_id |-> user_id,
                   status |-> status, name |-> "n0"])
    /\ resp' = [op |-> "create_cover_letter_router", caller |-> user_id,
                status |-> 200]
    /\ UNCHANGED <<users, signinLog, reqs, now, jumps, issued, letters, calls, blobs, api>>

\* routers.job_queries.create_job_query.
create_job_query(user_id, status) ==
    /\ DocCount < MaxDocs
    /\ insert_one("job_queries",
                  [id |-> lastId["job_queries"] + 1, user_id |-> user_id,
                   status |-> status, name |-> "n0"])
    /\ resp' = [op |-> "create_job_query", caller |-> user_id, status |-> 201]
    /\ UNCHANGED <<users, signinLog, reqs, now, jumps, issued, letters, calls, blobs, api>>

\* routers.job_flow.create_job_flow: three ownership lookups, each raising
\* 404 when it finds nothing, then insert_one.
create_job_flow(user_id, resume_id, cover_letter_id, job_query_id, status) ==
    LET missing ==
            \/ find_owned("resumes", resume_id, user_id) = {}
            \/ find_owned("cover_letters", cover_letter_id, user_id) = {}
            \/ find_owned("job_queries", job_query_id, user_id) = {}
        doc == [id |-> lastId["job_flows"] + 1, user_id |-> user_id,
                resume_id |-> resume_id, cover_letter_id |-> cover_letter_id,
                job_query_id |-> job_query_id, status |-> status]
    IN  /\ ~missing => lastId["job_flows"] < MaxFlows
        /\ IF missing THEN UNCHANGED <<db, lastId>>
                      ELSE insert_one("job_flows", doc)
        /\ resp' = [op |-> "create_job_flow", caller |-> user_id,
                    resume_id |-> resume_id,
                    cover_letter_id |-> cover_letter_id,
                    job_query_id |-> job_query_id,
                    status |-> IF missing THEN 404 ELSE 201,
                    pre |-> db["job_flows"]]
        /\ UNCHANGED <<users, signinLog, reqs, now, jumps, issued, letters, calls, blobs, api>>

UploadResumeStep ==
    \E user_id \in Owners : upload_resume(user_id, "archived", TRUE, TRUE)

CreateCoverLetterRouterStep ==
    \E user_id \in Owners : create_cover_letter(user_id, "archived")

CreateJobQueryStep ==
    \E user_id \in Owners : create_job_query(user_id, "archived")

CreateJobFlowStep ==
    \E user_id \in Owners, resume_id \in DocIds("resumes"),
       cover_letter_id \in DocIds("cover_letters"),
       job_query_id \in DocIds("job_queries") :
        create_job_flow(user_id, resume_id, cover_letter_id, job_query_id,
                        "active")

NextJF ==
    \/ UploadResumeStep
    \/ CreateCoverLetterRouterStep
    \/ CreateJobQueryStep
    \/ CreateJobFlowStep

SpecJF == Init /\ [][NextJF]_vars

\* ------------------------------------------- operations on one document

\* What a request that addressed document `id` of `coll` leaves behind: its
\* status and the document as it was stored when the request arrived.
DocResp(op, coll, user_id, id, status) ==
    [op |-> op, coll |-> coll, caller |-> user_id, id |-> id,
     status |-> status, pre |-> find_one(coll, id)]

\* update_one({"_id": object_id}, {"$set": {field: value, ...}}).
SetField(coll, id, field, value) ==
    [db EXCEPT ![coll] =
        {IF d.id = id THEN [d EXCEPT ![field] = value] ELSE d : d \in @}]

\* delete_one({"_id": object_id}).
delete_one(coll, id) == [db EXCEPT ![coll] = {d \in @ : d.id # id}]

\* routers.cover_letters.get_cover_letter and routers.job_queries.get_job_query:
\* the ownership lookup, 404 when it finds nothing.
get_document(coll, user_id, id) ==
    /\ resp' = DocResp("get", coll, user_id, id,
                       IF find_owned(coll, id, user_id) = {} THEN 404 ELSE 200)
    /\ UNCHANGED <<users, signinLog, reqs, now, jumps, issued, letters, calls, docVars, api>>

\* routers.resumes.download_resume: the ownership lookup, then get_file.
\* file_ok is whether the GridFS lookup of get_file works; every exception
\* in it becomes 500.
download_resume(user_id, id, file_ok) ==
    LET found == find_owned("resumes", id, user_id)
    IN  /\ resp' = DocResp("download", "resumes", user_id, id,
                           IF found = {} THEN 404
                           ELSE IF ~file_ok THEN 500
                           ELSE IF \E d \in found : d.file_id \in blobs
                           THEN 200 ELSE 404)
        /\ UNCHANGED <<users, signinLog, reqs, now, jumps, issued, letters, calls, docVars, api>>

\* The status handlers (update_resume_status, update_cover_letter_status,
\* update_job_query_status, update_job_flow_status): 404 when the ownership
\* lookup finds nothing, then update_one and 404 again when it modified
\* nothing.  Only update_resume_status sets the status alone; the others set
\* updated_at too, so they always modify the document they match.
update_status(coll, user_id, id, status) ==
    LET found    == find_owned(coll, id, user_id)
        modified == coll # "resumes" \/ \E d \in found : d.status # status
    IN  /\ db' = IF found = {} THEN db ELSE SetField(coll, id, "status", status)
        /\ resp' = DocResp("update_status", coll, user_id, id,
                           IF found = {} \/ ~modified THEN 404 ELSE 200)
        /\ UNCHANGED <<users, signinLog, reqs, now, jumps, issued, letters, calls,
                       lastId, blobs, api>>

\* routers.cover_letters.update_cover_letter and
\* routers.job_queries.update_job_query: name and content replaced, updated_at
\* stamped, for the caller's own document only.
update_document(coll, user_id, id, name) ==
    LET found == find_owned(coll, id, user_id)
    IN  /\ db' = IF found = {} THEN db ELSE SetField(coll, id, "name", name)
        /\ resp' = DocResp("update", coll, user_id, id,
                           IF found = {} THEN 404 ELSE 200)
        /\ UNCHANGED <<users, signinLog, reqs, now, jumps, issued, letters, calls,
                       lastId, blobs, api>>

\* delete_cover_letter, delete_job_query and delete_job_flow.
delete_document(coll, user_id, id) ==
    LET found == find_owned(coll, id, user_id)
    IN  /\ db' = IF found = {} THEN db ELSE delete_one(coll, id)
        /\ resp' = DocResp("delete", coll, user_id, id,
                           IF found = {} THEN 404 ELSE 200)
        /\ UNCHANGED <<users, signinLog, reqs, now, jumps, issued, letters, calls,
                       lastId, blobs, api>>

\* The awaits of delete_resume that the store or GridFS can fail.
Faults == {"lookup", "blob", "delete"}

\* delete_resume with the failure of the file deletion passed on instead of
\* logged.
delete_resume_BlobFailureAborts(user_id, id, faults) ==
    LET found   == find_owned("resumes", id, user_id)
        aborted == "lookup" \in faults \/ "blob" \in faults
        files   == {d.file_id : d \in found}
    IN  /\ blobs' = IF aborted THEN blobs ELSE blobs \ files
        /\ db' = IF aborted \/ found = {} \/ "delete" \in faults
                 THEN db ELSE delete_one("resumes", id)
        /\ resp' = [op |-> "delete", coll |-> "resumes", caller |-> user_id,
                    id |-> id, pre |-> find_one("resumes", id),
                    faults |-> faults,
                    status |-> IF "lookup" \in faults THEN 500
                               ELSE IF found = {} THEN 404
                               ELSE IF faults # {} THEN 500 ELSE 200]
        /\ UNCHANGED <<users, signinLog, reqs, now, jumps, issued, letters, calls,
                       lastId, api>>

\* routers.resumes.delete_resume: the ownership lookup, fs.delete of the
\* file inside its own try (a failure is logged and nothing more), then
\* delete_one; any other exception becomes 500.
delete_resume(user_id, id, faults) ==
    LET found == find_owned("resumes", id, user_id)
        files == {d.file_id : d \in found}
    IN  /\ blobs' = IF "lookup" \in faults \/ "blob" \in faults
                    THEN blobs ELSE blobs \ files
        /\ db' = IF "lookup" \in faults \/ found = {} \/ "delete" \in faults
                 THEN db ELSE delete_one("resumes", id)
        /\ resp' = [op |-> "delete", coll |-> "resumes", caller |-> user_id,
                    id |-> id, pre |-> find_one("resumes", id),
                    faults |-> faults,
                    status |-> IF "lookup" \in faults THEN 500
                               ELSE IF found = {} THEN 404
                               ELSE IF "delete" \in faults THEN 500 ELSE 200]
        /\ UNCHANGED <<users, signinLog, reqs, now, jumps, issued, letters, calls,
                       lastId, api>>

\* --------------------------------------------- the repository on documents

\* The statuses the domain models of the service stack accept: ResumeStatus
\* of domain.models.resume and CoverLetterStatus of
\* domain.models.cover_letter; "none" is a document without the field.
DomainStatuses(coll) ==
    IF coll = "resumes"
    THEN {"none", "pending", "processing", "completed", "failed"}
    ELSE {"none", "draft", "published", "archived"}

\* self.model(**self._convert_mongo_doc(data)) succeeds.
DomainAccepts(coll, d) == d.status \in DomainStatuses(coll)

\* Repository.get: find_one, NotFoundError when there is no document, then
\* the model is built; all of it inside one try whose handler turns every
\* exception, the NotFoundError too, into DatabaseError (500).
repository_get(coll, id) ==
    LET found == find_one(coll, id)
    IN  [status |-> IF found = {} THEN 500
                    ELSE IF \E d \in found : ~DomainAccepts(coll, d) THEN 500
                    ELSE 200,
         found  |-> found]

\* Repository.update: find_one_and_update writes the fields, then the same
\* NotFoundError, model construction and handler as in get.
repository_update(coll, id, field, value) ==
    LET found   == find_one(coll, id)
        written == SetField(coll, id, field, value)
    IN  [status |-> IF found = {} THEN 500
                    ELSE IF \E d \in written[coll] :
                                d.id = id /\ ~DomainAccepts(coll, d) THEN 500
                    ELSE 200,
         db     |-> written]

\* Repository.delete: delete_one, NotFoundError when deleted_count is 0,
\* turned into DatabaseError by the handler around it.
repository_delete(coll, id) ==
    [status |-> IF find_one(coll, id) = {} THEN 500 ELSE 200,
     db     |-> delete_one(coll, id)]

\* ------------------------------------------------ the service stack

\* CoverLetterService.get_cover_letter: repository.get and the ownership
\* test run inside one try, so the NotFoundError of a letter that belongs to
\* someone else becomes DatabaseError (500) like every other failure.
CoverLetterService_get_cover_letter(user_id, id) ==
    LET got   == repository_get("cover_letters", id)
        owned == \A d \in got.found : d.user_id = user_id
    IN  /\ resp' = DocResp("service_get", "cover_letters", user_id, id,
                           IF got.status # 200 \/ ~owned THEN 500 ELSE 200)
        /\ UNCHANGED <<users, signinLog, reqs, now, jumps, issued, letters, calls, docVars, api>>

\* ResumeService.create: StorageService.save, then Repository.create with
\* user_id, filename and file_id (the document has no status field).
ResumeService_create(user_id, saved) ==
    LET file_id == lastId["fs"] + 1
        id      == lastId["resumes"] + 1
    IN  /\ DocCount < MaxDocs
        /\ lastId["fs"] < MaxDocs
        /\ IF ~saved
           THEN UNCHANGED <<db, lastId, blobs>>
           ELSE /\ blobs' = blobs \cup {file_id}
                /\ db' = [db EXCEPT !["resumes"] = @ \cup
                              {[id |-> id, user_id |-> user_id,
                                status |-> "none", file_id |-> file_id]}]
                /\ lastId' = [lastId EXCEPT !["fs"] = file_id,
                                            !["resumes"] = id]
        /\ resp' = [op |-> "service_create", caller |-> user_id,
                    status |-> IF saved THEN 200 ELSE 500]
        /\ UNCHANGED <<users, signinLog, reqs, now, jumps, issued, letters, calls, api>>

\* ResumeService.get: repository.get, then NotFoundError (404) when the
\* resume belongs to someone else.
ResumeService_get(user_id, id) ==
    LET got == repository_get("resumes", id)
    IN  IF got.status # 200 THEN 500
        ELSE IF \E d \in got.found : d.user_id # user_id THEN 404
        ELSE 200

\* ResumeService.delete: get, then repository.delete of the document; the
\* file in GridFS is not touched.
ResumeService_delete(user_id, id) ==
    LET got     == ResumeService_get(user_id, id)
        deleted == repository_delete("resumes", id)
    IN  /\ db' = IF got = 200 THEN deleted.db ELSE db
        /\ resp' = [op |-> "service_delete", coll |-> "resumes",
                    caller |-> user_id, id |-> id,
                    pre |-> find_one("resumes", id), faults |-> {},
                    status |-> IF got = 200 THEN deleted.status ELSE got]
        /\ UNCHANGED <<users, signinLog, reqs, now, jumps, issued, letters, calls, lastId, blobs, api>>

\* ------------------------------------------------------- steps and specs

GetDocumentStep ==
    \E coll \in {"cover_letters", "job_queries"}, user_id \in Owners :
        \E id \in DocIds(coll) : get_document(coll, user_id, id)

DownloadResumeStep ==
    \E user_id \in Owners, id \in DocIds("resumes"), file_ok \in BOOLEAN :
        download_resume(user_id, id, file_ok)

UpdateStatusStep ==
    \E coll \in Collections, user_id \in Owners, status \in Statuses :
        \E id \in DocIds(coll) : update_status(coll, user_id, id, status)

UpdateDocumentStep ==
    \E coll \in {"cover_letters", "job_queries"}, user_id \in Owners :
        \E id \in DocIds(coll) : update_document(coll, user_id, id, "n1")

DeleteDocumentStep ==
    \E coll \in {"cover_letters", "job_queries", "job_flows"},
       user_id \in Owners :
        \E id \in DocIds(coll) : delete_document(coll, user_id, id)

DeleteResumeStep ==
    \E user_id \in Owners, id \in DocIds("resumes") :
        delete_resume(user_id, id, {})

ServiceGetCoverLetterStep ==
    \E user_id \in Owners, id \in DocIds("cover_letters") :
        CoverLetterService_get_cover_letter(user_id, id)

\* Every handler that addresses one stored document, with the creations that
\* put the documents there.
NextOwn ==
    \/ UploadResumeStep
    \/ CreateCoverLetterRouterStep
    \/ CreateJobQueryStep
    \/ CreateJobFlowStep
    \/ GetDocumentStep
    \/ DownloadResumeStep
    \/ UpdateStatusStep
    \/ UpdateDocumentStep
    \/ DeleteDocumentStep
    \/ DeleteResumeStep
    \/ ServiceGetCoverLetterStep

SpecOwn == Init /\ [][NextOwn]_vars

\* The failures one delete_resume request can meet: a failed lookup ends the
\* request, so it is not combined with the others.
FaultSets == {{}, {"lookup"}, {"blob"}, {"delete"}, {"blob", "delete"}}

DeleteResumeFaultStep ==
    \E user_id \in Owners, id \in DocIds("resumes"), faults \in FaultSets :
        delete_resume(user_id, id, faults)

\* Resumes of the routers: upload, delete with the store failing or not,
\* download.
NextRes == UploadResumeStep \/ DeleteResumeFaultStep \/ DownloadResumeStep

SpecRes == Init /\ [][NextRes]_vars

\* A call of the repository of the resumes collection, Repository(Resume,
\* "resumes"), as ResumeService makes it.
RepoResp(op, id, status) ==
    [op |-> op, coll |-> "resumes", id |-> id, status |-> status,
     pre |-> db["resumes"]]

RepositoryGet(id) ==
    /\ resp' = RepoResp("repository_get", id, repository_get("resumes", id).status)
    /\ UNCHANGED <<users, signinLog, reqs, now, jumps, issued, letters, calls, docVars, api>>

RepositoryUpdate(id, status) ==
    LET out == repository_update("resumes", id, "status", status)
    IN  /\ db' = out.db
        /\ resp' = RepoResp("repository_update", id, out.status)
        /\ UNCHANGED <<users, signinLog, reqs, now, jumps, issued, letters, calls, lastId, blobs, api>>

RepositoryDelete(id) ==
    LET out == repository_delete("resumes", id)
    IN  /\ db' = out.db
        /\ resp' = RepoResp("repository_delete", id, out.status)
        /\ UNCHANGED <<users, signinLog, reqs, now, jumps, issued, letters, calls, lastId, blobs, api>>

UploadResumeAnyStep ==
    \E user_id \in Owners, saved \in BOOLEAN, processed \in BOOLEAN :
        upload_resume(user_id, "archived", saved, processed)

ServiceCreateResumeStep ==
    \E user_id \in Owners, saved \in BOOLEAN :
        ResumeService_create(user_id, saved)

ServiceDeleteResumeStep ==
    \E user_id \in Owners, id \in DocIds("resumes") :
        ResumeService_delete(user_id, id)

RepositoryGetStep == \E id \in DocIds("resumes") : RepositoryGet(id)

RepositoryUpdateStep ==
    \E id \in DocIds("resumes") : RepositoryUpdate(id, "completed")

RepositoryDeleteStep == \E id \in DocIds("resumes") : RepositoryDelete(id)

\* Resumes of both stacks: the router handlers, ResumeService and the
\* repository underneath it.
NextSvc ==
    \/ UploadResumeAnyStep
    \/ ServiceCreateResumeStep
    \/ DeleteResumeFaultStep
    \/ ServiceDeleteResumeStep
    \/ DownloadResumeStep
    \/ RepositoryGetStep
    \/ RepositoryUpdateStep
    \/ RepositoryDeleteStep

SpecSvc == Init /\ [][NextSvc]_vars

\* --------------------------------------------------------- the AI client

\* What one POST to the messages API can end as: a response with status 200,
\* 429 or another status, httpx.TimeoutException, or another exception.
Upstream == {"200", "429", "500", "timeout", "error"}

\* for attempt in range(3).
MaxAttempts == 3

\* A reply text, cut into its braces and the stretches between them that hold
\* no brace: "k" is a member with a scalar value, "n" a key whose value is the
\* object that follows, "," the separator, "x" any other text.
Pieces == {"{", "}", "k", "n", ",", "x"}

Texts == UNION {[1..n -> Pieces] : n \in 0..MaxTextLen}

\* str.find: the 0-based index of the first occurrence, -1 when there is none.
str_find(s, c) ==
    IF \E i \in DOMAIN s : s[i] = c
    THEN (CHOOSE i \in DOMAIN s : s[i] = c /\ \A j \in 1..(i - 1) : s[j] # c) - 1
    ELSE -1

\* A search that stops at the first occurrence where rfind gives the last.
str_rfind_FirstMatch(s, c) == str_find(s, c)

\* str.rfind: the 0-based index of the last occurrence, -1 when there is none.
str_rfind(s, c) ==
    IF \E i \in DOMAIN s : s[i] = c
    THEN (CHOOSE i \in DOMAIN s :
              s[i] = c /\ \A j \in (i + 1)..Len(s) : s[j] # c) - 1
    ELSE -1

\* content[start:end] for 0 <= start and 0 <= end <= len(content).
Slice(s, start, end) == SubSeq(s, start + 1, end)

RECURSIVE ObjectEnd(_, _), MembersEnd(_, _)

\* json.loads on an object that starts at piece i: the index after its
\* closing brace, 0 when there is no object there.
ObjectEnd(s, i) ==
    IF i + 1 > Len(s) \/ s[i] # "{" THEN 0
    ELSE IF s[i + 1] = "}" THEN i + 2
    ELSE LET m == MembersEnd(s, i + 1)
         IN  IF m # 0 /\ m <= Len(s) /\ s[m] = "}" THEN m + 1 ELSE 0

\* The members of an object from piece i on: the index after the last one.
MembersEnd(s, i) ==
    LET first == IF i > Len(s) THEN 0
                 ELSE IF s[i] = "k" THEN i + 1
                 ELSE IF s[i] = "n" THEN ObjectEnd(s, i + 1)
                 ELSE 0
    IN  IF first = 0 THEN 0
        ELSE IF first <= Len(s) /\ s[first] = ","
        THEN MembersEnd(s, first + 1)
        ELSE first

\* json.loads(json_str): the value of a text that is one JSON object, kept as
\* the text that denotes it; JSONDecodeError otherwise.
json_loads(s) ==
    LET ok == s # <<>> /\ ObjectEnd(s, 1) = Len(s) + 1
    IN  [ok |-> ok, value |-> IF ok THEN s ELSE <<>>]

\* ClaudeClient.analyze_text: one request; TimeoutException becomes 504, a
\* status other than 200 and every other exception become 500.
analyze_text(upstream) ==
    IF upstream = "200" THEN 200
    ELSE IF upstream = "timeout" THEN 504
    ELSE 500

\* ClaudeClient.extract_json: analyze_text, the text between the first "{"
\* and the last "}", json.loads; one handler turns every exception raised on
\* the way, the HTTPException of analyze_text included, into 500.
extract_json(upstream, content) ==
    LET start    == str_find(content, "{")
        end      == str_rfind(content, "}") + 1
        json_str == Slice(content, start, end)
        parsed   == json_loads(json_str)
    IN  IF analyze_text(upstream) # 200 THEN [status |-> 500, value |-> <<>>]
        ELSE IF start = -1 \/ end = 0 THEN [status |-> 500, value |-> <<>>]
        ELSE IF ~parsed.ok THEN [status |-> 500, value |-> <<>>]
        ELSE [status |-> 200, value |-> parsed.value]

\* ClaudeClient.analyze_resume and generate_job_query_keywords: as
\* extract_json, with an empty reply refused first; the keywords are also
\* validated against JobQueryKeywords (validates).
analyze_resume(upstream, content, validates) ==
    LET got == extract_json(upstream, content)
    IN  IF got.status # 200 \/ content = <<>> \/ ~validates
        THEN [status |-> 500, value |-> <<>>]
        ELSE got

RECURSIVE Attempts(_, _, _)

RECURSIVE Attempts_SleepsAfterLast(_, _, _)

\* A retry loop that backs off after its last attempt too.
Attempts_SleepsAfterLast(outcomes, attempt, sleeps) ==
    LET outcome == outcomes[attempt + 1]
    IN  IF outcome = "200"
        THEN [status |-> 200, requests |-> attempt + 1, sleeps |-> sleeps]
        ELSE IF attempt < MaxAttempts - 1
        THEN Attempts_SleepsAfterLast(outcomes, attempt + 1,
                                      Append(sleeps, 2 ^ attempt))
        ELSE [status |-> IF outcome = "timeout" THEN 504 ELSE 500,
              requests |-> attempt + 1,
              sleeps |-> Append(sleeps, 2 ^ attempt)]

RECURSIVE Attempts_ReturnsLastResponse(_, _, _)

\* A retry loop that falls out of the loop after a last attempt answered with
\* an error status and returns that response.
Attempts_ReturnsLastResponse(outcomes, attempt, sleeps) ==
    LET outcome == outcomes[attempt + 1]
    IN  IF outcome = "200"
        THEN [status |-> 200, requests |-> attempt + 1, sleeps |-> sleeps]
        ELSE IF attempt < MaxAttempts - 1
        THEN Attempts_ReturnsLastResponse(outcomes, attempt + 1,
                                          Append(sleeps, 2 ^ attempt))
        ELSE [status |-> IF outcome = "timeout" THEN 504
                         ELSE IF outcome = "error" THEN 500 ELSE 200,
              requests |-> attempt + 1, sleeps |-> sleeps]

\* The retry loop of analyze_file from attempt (0-based) on.  A 200 leaves
\* the loop.  A 429 before the last attempt sleeps and continues; every other
\* response raises HTTPException inside the try of the loop body, and its
\* handler treats that like any exception: sleep and continue before the
\* last attempt, re-raise on the last one.
Attempts(outcomes, attempt, sleeps) ==
    LET outcome == outcomes[attempt + 1]
    IN  IF outcome = "200"
        THEN [status |-> 200, requests |-> attempt + 1, sleeps |-> sleeps]
        ELSE IF attempt < MaxAttempts - 1
        THEN Attempts(outcomes, attempt + 1, Append(sleeps, 2 ^ attempt))
        ELSE [status |-> IF outcome = "timeout" THEN 504 ELSE 500,
              requests |-> attempt + 1, sleeps |-> sleeps]

\* ClaudeClient.analyze_file: an extension without a MIME type is refused
\* before any request (500); otherwise the retry loop.
analyze_file(supported, outcomes) ==
    IF ~supported THEN [status |-> 500, requests |-> 0, sleeps |-> <<>>]
    ELSE Attempts(outcomes, 0, <<>>)

\* What the messages API will do with the requests of one client call: the
\* outcome of each attempt and, for a 200, the text of the reply.
ApiBehaviours ==
    {[outcomes |-> o, text |-> <<>>] : o \in [1..MaxAttempts -> Upstream]}
        \cup {[outcomes |-> [i \in 1..MaxAttempts |-> "200"], text |-> t] :
                  t \in Texts}

\* The client has not been called yet.
Idle == resp.op = "none"

AnalyzeFileStep ==
    \E supported \in BOOLEAN :
        LET out == analyze_file(supported, api.outcomes)
        IN  /\ Idle
            /\ resp' = [op |-> "analyze_file", supported |-> supported,
                        status |-> out.status, requests |-> out.requests,
                        sleeps |-> out.sleeps]
            /\ UNCHANGED <<users, signinLog, reqs, now, jumps, issued, letters, calls, docVars, api>>

AnalyzeTextStep ==
    /\ Idle
    /\ resp' = [op |-> "analyze_text", status |-> analyze_text(api.outcomes[1]),
                requests |-> 1]
    /\ UNCHANGED <<users, signinLog, reqs, now, jumps, issued, letters, calls, docVars, api>>

ExtractJsonStep ==
    LET out == extract_json(api.outcomes[1], api.text)
    IN  /\ Idle
        /\ resp' = [op |-> "extract_json", status |-> out.status,
                    value |-> out.value, requests |-> 1]
        /\ UNCHANGED <<users, signinLog, reqs, now, jumps, issued, letters, calls, docVars, api>>

AnalyzeResumeStep ==
    \E op \in {"analyze_resume", "generate_job_query_keywords"},
       validates \in BOOLEAN :
        LET out == analyze_resume(api.outcomes[1], api.text,
                                  op = "analyze_resume" \/ validates)
        IN  /\ Idle
            /\ resp' = [op |-> op, status |-> out.status,
                        value |-> out.value, requests |-> 1]
            /\ UNCHANGED <<users, signinLog, reqs, now, jumps, issued, letters, calls, docVars, api>>

NextAI ==
    AnalyzeFileStep \/ AnalyzeTextStep \/ ExtractJsonStep \/ AnalyzeResumeStep

\* One call of the client against every behaviour of the API.
InitAI ==
    /\ users = <<>>
    /\ resp = [op |-> "none"]
    /\ signinLog = {}
    /\ reqs = <<>>
    /\ now = 0
    /\ jumps = 0
    /\ issued = {}
    /\ letters = <<>>
    /\ calls = <<>>
    /\ db = [coll \in Collections |-> {}]
    /\ lastId = [coll \in Collections \cup {"fs"} |-> 0]
    /\ blobs = {}
    /\ api \in ApiBehaviours

SpecAI == InitAI /\ [][NextAI]_vars

\* ------------------------------------------------------- list operations

\* The status filter of a list request: "any" is status=None.
ListFilters(coll) ==
    {"any"} \cup (IF coll = "cover_letters" THEN {"draft", "published"}
                                          ELSE Statuses)

\* The documents the query of a list request matches: {"user_id": user_id},
\* with "status" added when a status is given.
Matching(coll, user_id, status) ==
    {d \in db[coll] :
        d.user_id = user_id /\ (status = "any" \/ d.status = status)}

\* collection.count_documents(query).
count_documents(coll, user_id, status) ==
    Cardinality(Matching(coll, user_id, status))

\* The place of a status in ascending order: "active" < "archived".
StatusRank(status) == IF status = "active" THEN 0 ELSE 1

\* The order of the cursor.  get_resumes_by_user sorts by status ascending,
\* then created_at descending; get_by_user by updated_at descending.  Ids are
\* handed out in the order of creation.
SortsBefore(coll, a, b) ==
    IF coll = "cover_letters" THEN a.id > b.id
    ELSE \/ StatusRank(a.status) < StatusRank(b.status)
         \/ StatusRank(a.status) = StatusRank(b.status) /\ a.id > b.id

RECURSIVE Sorted(_, _)

\* find(query).sort(...): the matching documents in the order of the cursor.
Sorted(coll, docs) ==
    IF docs = {} THEN <<>>
    ELSE LET first == CHOOSE d \in docs :
                          \A e \in docs \ {d} : SortsBefore(coll, d, e)
         IN  <<first>> \o Sorted(coll, docs \ {first})

\* cursor.skip(skip).limit(limit) read with to_list(length=limit).
skip_limit(s, skip, limit) ==
    SubSeq(s, skip + 1, IF skip + limit < Len(s) THEN skip + limit ELSE Len(s))

\* A page count that rounds down.
total_pages_Floor(total, per_page) == total \div per_page

\* (total + per_page - 1) // per_page.
total_pages(total, per_page) == (total + per_page - 1) \div per_page

\* routers.resumes.get_resumes_by_user.
get_resumes_by_user(user_id, page, per_page, status) ==
    LET skip    == (page - 1) * per_page
        total   == count_documents("resumes", user_id, status)
        resumes == skip_limit(Sorted("resumes",
                                     Matching("resumes", user_id, status)),
                              skip, per_page)
    IN  [status |-> 200, list |-> resumes, total |-> total,
         totalPages |-> total_pages(total, per_page)]

\* CoverLetterRepository.get_by_user: the same count, skip and limit; every
\* item of the page is then built as CoverLetterInDB, and one handler turns a
\* failure of that into DatabaseError (500).
get_by_user(user_id, page, per_page, status) ==
    LET total == count_documents("cover_letters", user_id, status)
        skip  == (page - 1) * per_page
        items == skip_limit(Sorted("cover_letters",
                                   Matching("cover_letters", user_id, status)),
                            skip, per_page)
    IN  IF \E i \in DOMAIN items : ~DomainAccepts("cover_letters", items[i])
        THEN [status |-> 500, list |-> <<>>, total |-> 0, totalPages |-> 0]
        ELSE [status |-> 200, list |-> items, total |-> total,
              totalPages |-> total_pages(total, per_page)]

\* Repository.create on the cover_letters collection: insert_one of a
\* document the service built from CoverLetterInDB.
CoverLetterRepository_create(user_id, status) ==
    /\ DocCount < MaxDocs
    /\ insert_one("cover_letters",
                  [id |-> lastId["cover_letters"] + 1, user_id |-> user_id,
                   status |-> status, name |-> "n0"])
    /\ resp' = [op |-> "repository_create", caller |-> user_id,
                status |-> 200]
    /\ UNCHANGED <<users, signinLog, reqs, now, jumps, issued, letters, calls, blobs, api>>

\* The answer of a list request, with the request it answers.
ListResp(coll, user_id, page, per_page, filter, out) ==
    [op |-> "list", coll |-> coll, caller |-> user_id, page |-> page,
     per_page |-> per_page, filter |-> filter, status |-> out.status,
     list |-> out.list, total |-> out.total, totalPages |-> out.totalPages]

\* A list request has been answered.
Listed == resp.op = "list"

\* A behaviour fills the collections and then makes one list request: a list
\* request writes nothing, so what a later request finds does not depend on
\* it.
UploadResumeToListStep ==
    /\ ~Listed
    /\ \E user_id \in Owners, status \in Statuses :
           upload_resume(user_id, status, TRUE, TRUE)

CreateCoverLetterToListStep ==
    /\ ~Listed
    /\ \E user_id \in Owners, status \in {"draft", "published"} :
           CoverLetterRepository_create(user_id, status)

ListResumesStep ==
    \E user_id \in Owners, page \in 1..MaxPage, per_page \in 1..MaxPerPage,
       status \in ListFilters("resumes") :
        /\ ~Listed
        /\ resp' = ListResp("resumes", user_id, page, per_page, status,
                            get_resumes_by_user(user_id, page, per_page,
                                                status))
        /\ UNCHANGED <<users, signinLog, reqs, now, jumps, issued, letters, calls, docVars, api>>

GetByUserStep ==
    \E user_id \in Owners, page \in 1..MaxPage, per_page \in 1..MaxPerPage,
       status \in ListFilters("cover_letters") :
        /\ ~Listed
        /\ resp' = ListResp("cover_letters", user_id, page, per_page, status,
                            get_by_user(user_id, page, per_page, status))
        /\ UNCHANGED <<users, signinLog, reqs, now, jumps, issued, letters, calls, docVars, api>>

NextList ==
    \/ UploadResumeToListStep
    \/ CreateCoverLetterToListStep
    \/ ListResumesStep
    \/ GetByUserStep

SpecList == Init /\ [][NextList]_vars

\* ------------------------------------------------------------ blob storage

\* core/config.py: Settings.MAX_FILE_SIZE; core/storage.py: MAX_FILE_SIZE.
MAX_FILE_SIZE == 5 * 1024 * 1024

\* core/config.py: Settings.ALLOWED_EXTENSIONS, read by services.storage.
ALLOWED_EXTENSIONS == {".pdf", ".doc", ".docx"}

\* core/storage.py: ALLOWED_EXTENSIONS, read by save_file_content.
CoreAllowedExtensions == {".pdf", ".doc", ".docx", ".txt", ".rtf"}

\* The extensions of the file names a caller sends.
FileExtensions == {".pdf", ".docx", ".txt", ".exe"}

\* The payload sizes a caller sends, in bytes.
FileSizes == {0, MAX_FILE_SIZE - 1, MAX_FILE_SIZE, MAX_FILE_SIZE + 1}

\* is_allowed_file of the stack.
is_allowed_file(stack, ext) ==
    IF stack = "core" THEN ext \in CoreAllowedExtensions
    ELSE ext \in ALLOWED_EXTENSIONS

\* core.storage.save_file_content and StorageService.save: the extension
\* check (400), the size check (400), then upload_from_stream with the
\* metadata; a failure of the store becomes 500 with nothing written.
save_file(stack, user_id, ext, size, store_ok) ==
    LET file_id == lastId["fs"] + 1
        status  == IF ~is_allowed_file(stack, ext) THEN 400
                   ELSE IF size > MAX_FILE_SIZE THEN 400
                   ELSE IF ~store_ok THEN 500
                   ELSE 200
    IN  /\ lastId["fs"] < MaxDocs
        /\ IF status = 200
           THEN /\ blobs' = blobs \cup {file_id}
                /\ lastId' = [lastId EXCEPT !["fs"] = file_id]
           ELSE UNCHANGED <<blobs, lastId>>
        /\ resp' = [op |-> "save", stack |-> stack, ext |-> ext, size |-> size,
                    store_ok |-> store_ok, status |-> status,
                    file_id |-> IF status = 200 THEN file_id ELSE 0,
                    metadata |-> IF status = 200
                                 THEN [user_id |-> user_id] ELSE [user_id |-> ""],
                    caller |-> user_id, pre |-> blobs]
        /\ UNCHANGED <<users, signinLog, reqs, now, jumps, issued, letters, calls, db, api>>

SaveFileStep ==
    \E stack \in Stacks, user_id \in Owners, ext \in FileExtensions,
       size \in FileSizes, store_ok \in BOOLEAN :
        save_file(stack, user_id, ext, size, store_ok)

NextStore == SaveFileStep

SpecStore == Init /\ [][NextStore]_vars

\* ----------------------------------------------------------- malformed ids

\* An id string that ObjectId() refuses with InvalidId.
MalformedId == 0

\* The ids a request may carry: those of DocIds and a malformed one.
AnyIds(coll) == DocIds(coll) \cup {MalformedId}

\* Repository.get, update and delete: ObjectId(id) is evaluated inside the try
\* of the method, so InvalidId leaves through `except Exception` as
\* DatabaseError (500), before the collection is called.
RepositoryOnId(op, id) ==
    IF id = MalformedId
    THEN /\ resp' = RepoResp(op, id, 500)
         /\ UNCHANGED <<users, signinLog, reqs, now, jumps, issued, letters, calls, docVars, api>>
    ELSE IF op = "repository_get" THEN RepositoryGet(id)
    ELSE IF op = "repository_update" THEN RepositoryUpdate(id, "completed")
    ELSE RepositoryDelete(id)

\* download_resume: ObjectId(resume_id) is evaluated while the filter of
\* find_one is built; InvalidId is not an HTTPException, so the handler's
\* `except Exception` answers 500.
DownloadOnId(user_id, id, file_ok) ==
    IF id = MalformedId
    THEN /\ resp' = DocResp("download", "resumes", user_id, id, 500)
         /\ UNCHANGED <<users, signinLog, reqs, now, jumps, issued, letters, calls, docVars, api>>
    ELSE download_resume(user_id, id, file_ok)

\* create_job_flow: the three lookups run in order, each building ObjectId of
\* its id first; a malformed id met before any lookup has answered 404 ends
\* the request with 500.
CreateJobFlowOnIds(user_id, resume_id, cover_letter_id, job_query_id) ==
    LET has_resume == find_owned("resumes", resume_id, user_id) # {}
        has_letter == find_owned("cover_letters", cover_letter_id, user_id) # {}
        invalid ==
            \/ resume_id = MalformedId
            \/ has_resume /\ cover_letter_id = MalformedId
            \/ has_resume /\ has_letter /\ job_query_id = MalformedId
    IN  IF invalid
        THEN /\ resp' = [op |-> "create_job_flow", caller |-> user_id,
                         resume_id |-> resume_id,
                         cover_letter_id |-> cover_letter_id,
                         job_query_id |-> job_query_id, status |-> 500,
                         pre |-> db["job_flows"]]
             /\ UNCHANGED <<users, signinLog, reqs, now, jumps, issued, letters, calls, docVars, api>>
        ELSE create_job_flow(user_id, resume_id, cover_letter_id, job_query_id,
                             "active")

RepositoryOnIdStep ==
    \E op \in {"repository_get", "repository_update", "repository_delete"},
       id \in AnyIds("resumes") :
        RepositoryOnId(op, id)

DownloadOnIdStep ==
    \E user_id \in Owners, id \in AnyIds("resumes"), file_ok \in BOOLEAN :
        DownloadOnId(user_id, id, file_ok)

CreateJobFlowOnIdsStep ==
    \E user_id \in Owners, resume_id \in AnyIds("resumes"),
       cover_letter_id \in AnyIds("cover_letters"),
       job_query_id \in AnyIds("job_queries") :
        CreateJobFlowOnIds(user_id, resume_id, cover_letter_id, job_query_id)

NextIds ==
    \/ UploadResumeStep
    \/ CreateCoverLetterRouterStep
    \/ CreateJobQueryStep
    \/ RepositoryOnIdStep
    \/ DownloadOnIdStep
    \/ CreateJobFlowOnIdsStep

SpecIds == Init /\ [][NextIds]_vars

\* ------------------------------------------- smaller sets of operations

\* The documents a job flow refers to are created, joined into job flows and
\* deleted.
NextRef ==
    \/ UploadResumeStep
    \/ CreateCoverLetterRouterStep
    \/ CreateJobQueryStep
    \/ CreateJobFlowStep
    \/ DeleteDocumentStep
    \/ DeleteResumeStep

SpecRef == Init /\ [][NextRef]_vars

\* upload_resume for a file of any extension: one that is not .pdf, .doc or
\* .docx is refused with 400 before the file is read.
upload_resume_file(user_id, ext, status, saved, processed) ==
    IF ext \notin {".pdf", ".doc", ".docx"}
    THEN /\ resp' = [op |-> "upload_resume", caller |-> user_id,
                     status |-> 400]
         /\ UNCHANGED <<users, signinLog, reqs, now, jumps, issued, letters, calls, docVars, api>>
    ELSE upload_resume(user_id, status, saved, processed)

UploadResumeFileStep ==
    \E user_id \in Owners, ext \in FileExtensions, status \in Statuses,
       saved \in BOOLEAN, processed \in BOOLEAN :
        upload_resume_file(user_id, ext, status, saved, processed)

\* Uploads alone, with the store or the analysis failing or not.
NextUp == UploadResumeFileStep

SpecUp == Init /\ [][NextUp]_vars

UploadResumeWithStatusStep ==
    \E user_id \in Owners, status \in Statuses :
        upload_resume(user_id, status, TRUE, TRUE)

UpdateResumeStatusStep ==
    \E user_id \in Owners, status \in Statuses :
        \E id \in DocIds("resumes") :
            update_status("resumes", user_id, id, status)

\* Resumes are uploaded and their status is set.
NextStatus == UploadResumeWithStatusStep \/ UpdateResumeStatusStep

SpecStatus == Init /\ [][NextStatus]_vars

\* ------------------------------------------------------------ properties

\* Some document of `docs` has this email, or this (non-empty) username.
Taken(docs, email, username) ==
    \E i \in DOMAIN docs :
        \/ email # NoValue /\ docs[i].email = email
        \/ username # NoValue /\ docs[i].username = username

\* C1: a signup whose email, or whose non-empty username, belongs to an
\* existing user fails with 409 Conflict and leaves the users collection as it
\* was, in core.auth.create_user and in AuthService.create_user.
C1_DuplicateSignupConflict ==
    (resp.op = "signup" /\ Taken(resp.pre, resp.email, resp.username))
        => (resp.status = 409 /\ users = resp.pre)

\* C2: no two user documents have the same email, and no two have the same
\* non-empty username, also when signup requests interleave.
C2_UniqueEmailAndUsername ==
    \A i, j \in DOMAIN users :
        i # j =>
            /\ users[i].email # users[j].email
            /\ users[i].username # NoValue => users[i].username # users[j].username

\* C3: a signin with the email (or the username) and the password of a
\* registered user succeeds and returns that user, whoever else is registered.
C3_AuthenticateAfterCreate ==
    resp.op = "signin" =>
        \A i \in DOMAIN users :
            ( /\ \/ resp.login = users[i].email
                 \/ users[i].username # NoValue /\ resp.login = users[i].username
              /\ verify_password(resp.password, users[i].password) )
                => (resp.status = 200 /\ resp.user = users[i].id)

\* C4 as stated: get_current_user accepts an access token issued at t0 with
\* lifetime T at every time before t0+T and rejects it with 401 at every time
\* after t0+T.
C4_AcceptedBeforeRejectedAfter ==
    resp.op = "current_user" =>
        \A t \in issued :
            (t.kind = "access" /\ t.tok = resp.token) =>
                /\ now < t.t0 + t.ttl =>
                        (resp.status = 200 /\ resp.user = t.tok.sub.id)
                /\ now > t.t0 + t.ttl => resp.status = 401

\* C4 amended: the expiry is kept and compared in whole seconds, so the token
\* is accepted at every time before t0+T, rejected with 401 at every time from
\* one second after t0+T on, and once get_current_user rejects it, it rejects
\* it in every later state.
C4_AcceptedBeforeRejectedWithinASecond ==
    /\ [](resp.op = "current_user" =>
            \A t \in issued :
                (t.kind = "access" /\ t.tok = resp.token) =>
                    /\ now < t.t0 + t.ttl =>
                            (resp.status = 200 /\ resp.user = t.tok.sub.id)
                    /\ now >= t.t0 + t.ttl + Seconds(1) => resp.status = 401)
    /\ [][\A t \in issued :
            (t.kind = "access" /\ get_current_user(t.tok).status = 401)
                => (get_current_user(t.tok).status = 401)']_vars

\* An issued access token is presented a second or more after t0+T and is
\* rejected.
C4_Witness ==
    /\ resp.op = "current_user"
    /\ resp.status = 401
    /\ \E t \in issued :
           /\ t.kind = "access"
           /\ t.tok = resp.token
           /\ now >= t.t0 + t.ttl + Seconds(1)

\* C5: refresh_access_token on an issued, unexpired refresh token of an
\* existing user succeeds; the new access token has the refresh token's
\* subject and get_current_user resolves it to that user.
C5_RefreshKeepsSubject ==
    resp.op = "refresh" =>
        \A t \in issued :
            ( /\ t.kind = "refresh"
              /\ t.tok = resp.token
              /\ now < t.t0 + t.ttl
              /\ UserExists(t.tok.sub) ) =>
                /\ resp.status = 200
                /\ resp.access.sub = resp.token.sub
                /\ get_current_user(resp.access).status = 200
                /\ get_current_user(resp.access).user = resp.token.sub.id

\* A refresh token issued to the second user has been refreshed.
C5_Witness ==
    /\ resp.op = "refresh"
    /\ resp.status = 200
    /\ resp.token.sub.id = 2
    /\ \E t \in issued : t.kind = "refresh" /\ t.tok = resp.token /\ now < t.t0 + t.ttl

\* C6: a validly signed, unexpired token whose subject is malformed, or names
\* no stored user, is answered 401 by get_current_user and by
\* refresh_access_token.
C6_UnknownSubjectUnauthorized ==
    ( /\ resp.op \in {"current_user", "refresh"}
      /\ resp.token.sig
      /\ Timestamp(now) < resp.token.exp
      /\ resp.token.sub.kind # "none"
      /\ ~UserExists(resp.token.sub) )
        => resp.status = 401

\* C9: when create_cover_letter or update_cover_letter with active=true has
\* succeeded (no other writer in between), the letter it created or updated
\* is the user's only active letter, and the other users' letters are as
\* they were.
C9_ExactlyOneActive ==
    ( /\ resp.op \in {"create_cover_letter", "update_cover_letter"}
      /\ resp.active = "true"
      /\ resp.status = 200 ) =>
        /\ ActiveOf(letters, resp.user_id) = {resp.target}
        /\ \A i \in DOMAIN resp.pre :
               resp.pre[i].user_id # resp.user_id => letters[i] = resp.pre[i]

\* An activation succeeded for a user who had two active letters before it,
\* while another user had an active letter too.
C9_Witness ==
    /\ resp.op \in {"create_cover_letter", "update_cover_letter"}
    /\ resp.active = "true"
    /\ resp.status = 200
    /\ Cardinality(ActiveOf(resp.pre, resp.user_id)) >= 2
    /\ \E i \in DOMAIN letters : letters[i].user_id # resp.user_id /\ letters[i].active

\* The activate calls of the user that have returned successfully.
Completed(user_id) ==
    {c \in DOMAIN calls :
        calls[c].user_id = user_id /\ calls[c].pc = "done" /\ calls[c].status = 200}

\* No activate call is in flight.
Quiet == \A c \in DOMAIN calls : calls[c].pc = "done"

C11_ZeroActiveOnlyMomentary ==
    \A user_id \in Owners :
        (Quiet /\ Completed(user_id) # {})
            => \E c \in Completed(user_id) :
                   calls[c].target \in ActiveOf(letters, user_id)

\* C7: a signin failing because the login is unknown and a signin failing
\* because the password is wrong give the caller the same status, detail and
\* headers.
C7_SigninFailuresIndistinguishable ==
    \A a, b \in signinLog :
        (a.status = b.status /\ a.detail = b.detail /\ a.headers = b.headers)

\* Both kinds of failure have been observed.
C7_Witness ==
    \E a, b \in signinLog : a.known /\ ~b.known /\ a.status = 401 /\ b.status = 401

\* C8: check_availability answers available=False exactly when the supplied
\* email or the supplied username is taken (by the same or by different
\* users), and not-available with a message when nothing is supplied, in
\* core.auth.check_availability and in AuthService.check_availability.
C8_AvailabilityExact ==
    resp.op = "check" =>
        /\ resp.status = 200
        /\ resp.message # NoValue
        /\ resp.available =
              ( /\ resp.email # NoValue \/ resp.username # NoValue
                /\ ~Taken(users, resp.email, resp.username) )

\* C12: create_job_flow fails with 404 and leaves job_flows as it was when
\* one of the resume, the cover letter and the job query it names does not
\* exist or belongs to another user; it inserts one job flow, owned by the
\* caller, only when the caller owns all three.
C12_JobFlowNeedsOwnedReferences ==
    resp.op = "create_job_flow" =>
        LET owns(coll, id) ==
                \E d \in db[coll] : d.id = id /\ d.user_id = resp.caller
            all == /\ owns("resumes", resp.resume_id)
                   /\ owns("cover_letters", resp.cover_letter_id)
                   /\ owns("job_queries", resp.job_query_id)
            new == db["job_flows"] \ resp.pre
        IN  IF all
            THEN /\ resp.status = 201
                 /\ resp.pre \subseteq db["job_flows"]
                 /\ Cardinality(new) = 1
                 /\ \A d \in new :
                        /\ d.user_id = resp.caller
                        /\ d.resume_id = resp.resume_id
                        /\ d.cover_letter_id = resp.cover_letter_id
                        /\ d.job_query_id = resp.job_query_id
            ELSE resp.status = 404 /\ db["job_flows"] = resp.pre

\* create_job_flow was refused for a caller who owns the cover letter and
\* the job query but named a resume that exists and belongs to another user.
C12_Witness ==
    /\ resp.op = "create_job_flow"
    /\ resp.status = 404
    /\ \E d \in db["resumes"] :
           d.id = resp.resume_id /\ d.user_id # resp.caller
    /\ \E d \in db["cover_letters"] :
           d.id = resp.cover_letter_id /\ d.user_id = resp.caller
    /\ \E d \in db["job_queries"] :
           d.id = resp.job_query_id /\ d.user_id = resp.caller


\* C13: a get, update, status update or delete of a resume, cover letter,
\* job query or job flow by a caller who does not own the addressed document
\* returns 404, as it does for an id that matches no document, and leaves the
\* stored document as it was.
C13_ForeignDocumentLooksMissing ==
    ( /\ resp.op \in {"get", "download", "update", "update_status", "delete",
                      "service_get"}
      /\ \A d \in resp.pre : d.user_id # resp.caller ) =>
        /\ resp.status = 404
        /\ find_one(resp.coll, resp.id) = resp.pre

\* C15: in delete_resume a failure of the file deletion does not end the
\* request (the resume document is deleted and the call reports success),
\* while a failure of the lookup or of the document deletion ends it with an
\* error and leaves the resume document in place.
C15_OnlyBlobFailureTolerated ==
    (resp.op = "delete" /\ resp.coll = "resumes"
        /\ \E d \in resp.pre : d.user_id = resp.caller) =>
        IF resp.faults \subseteq {"blob"}
        THEN resp.status = 200 /\ find_one("resumes", resp.id) = {}
        ELSE resp.status >= 400 /\ find_one("resumes", resp.id) = resp.pre

\* The owner's delete_resume succeeded although the file deletion failed: the
\* document is gone and its file is still in GridFS.
C15_Witness ==
    /\ resp.op = "delete"
    /\ resp.coll = "resumes"
    /\ resp.faults = {"blob"}
    /\ resp.status = 200
    /\ \E d \in resp.pre : d.user_id = resp.caller /\ d.file_id \in blobs
    /\ find_one("resumes", resp.id) = {}

\* C14: when the owner's delete of a resume has succeeded, in delete_resume
\* and in ResumeService.delete, the resume document and the file its file_id
\* names are both gone; and a download of a resume id that is no longer
\* stored returns 404.
C14_DeleteRemovesDocumentAndBlob ==
    /\ ( /\ resp.op \in {"delete", "service_delete"}
         /\ resp.coll = "resumes"
         /\ resp.status = 200 ) =>
            /\ find_one("resumes", resp.id) = {}
            /\ \A d \in resp.pre : d.file_id \notin blobs
    /\ (resp.op = "download" /\ find_one("resumes", resp.id) = {}) =>
            resp.status = 404

\* C20: Repository.get, Repository.update and Repository.delete called with
\* a well-formed id that matches no document fail with NotFoundError (404),
\* not with the 500 of DatabaseError, and leave the collection as it was.
C20_RepositoryNotFound ==
    ( /\ resp.op \in {"repository_get", "repository_update",
                      "repository_delete"}
      /\ \A d \in resp.pre : d.id # resp.id ) =>
        resp.status = 404 /\ db[resp.coll] = resp.pre

\* C16: in analyze_file a response whose status is neither 200 nor 429 ends
\* the call: it fails after that response with no further request and no
\* sleep; only a 429 and an exception of the transport lead to another
\* attempt.
C16_OtherStatusIsTerminal ==
    (resp.op = "analyze_file" /\ resp.supported) =>
        \A i \in 1..MaxAttempts :
            (api.outcomes[i] = "500" /\ resp.requests >= i) =>
                /\ resp.requests = i
                /\ Len(resp.sleeps) < i
                /\ resp.status # 200

\* C17: a timeout of the API reaches the caller as 504 and every other
\* failure of the API as 500, in analyze_text and in extract_json,
\* analyze_resume and generate_job_query_keywords, which are built on it.
C17_TimeoutIs504 ==
    resp.op \in {"analyze_text", "extract_json", "analyze_resume",
                 "generate_job_query_keywords"} =>
        /\ api.outcomes[1] = "timeout" => resp.status = 504
        /\ api.outcomes[1] \in {"429", "500", "error"} => resp.status = 500

\* C18: for every reply text extract_json parses exactly the pieces from the
\* first "{" to the last "}" and returns their JSON value; it fails, with no
\* further request, when the text has no "{", no "}", its last "}" before its
\* first "{", or when those pieces are not valid JSON.
C18_ExtractJsonFirstToLastBrace ==
    (resp.op = "extract_json" /\ api.outcomes[1] = "200") =>
        LET t      == api.text
            opens  == {i \in DOMAIN t : t[i] = "{"}
            closes == {i \in DOMAIN t : t[i] = "}"}
            first  == CHOOSE i \in opens : \A j \in opens : i <= j
            last   == CHOOSE i \in closes : \A j \in closes : j <= i
        IN  IF /\ opens # {}
               /\ closes # {}
               /\ first < last
               /\ json_loads(SubSeq(t, first, last)).ok
            THEN /\ resp.status = 200
                 /\ resp.value = json_loads(SubSeq(t, first, last)).value
            ELSE resp.status = 500 /\ resp.requests = 1

\* extract_json returned an object that the reply held between other text:
\* something stood before the first "{" and something after the last "}".
C18_Witness ==
    /\ resp.op = "extract_json"
    /\ resp.status = 200
    /\ api.text # <<>>
    /\ api.text[1] # "{"
    /\ api.text[Len(api.text)] # "}"
    /\ Len(resp.value) >= 3

\* C19: a list request with page >= 1 and per_page >= 1 of a user who has N
\* matching documents returns min(per_page, max(0, N - (page-1)*per_page))
\* items, all of them documents of the caller, total = N and as total pages
\* the least number of pages of per_page items that hold N documents.
C19_PageHoldsItsShare ==
    Listed =>
        LET mine == {d \in db[resp.coll] :
                        /\ d.user_id = resp.caller
                        /\ resp.filter # "any" => d.status = resp.filter}
            N    == Cardinality(mine)
            rest == N - (resp.page - 1) * resp.per_page
            due  == IF rest <= 0 THEN 0
                    ELSE IF rest < resp.per_page THEN rest ELSE resp.per_page
        IN  /\ resp.status = 200
            /\ Len(resp.list) = due
            /\ resp.total = N
            /\ resp.totalPages * resp.per_page >= N
            /\ (resp.totalPages - 1) * resp.per_page < N
            /\ resp.totalPages >= 0
            /\ \A i \in DOMAIN resp.list : resp.list[i] \in mine
            /\ \A i, j \in DOMAIN resp.list :
                   i # j => resp.list[i] # resp.list[j]

\* The last page is a partial one: page 2 of three documents listed two to a
\* page holds one document, while the other user has none of them.
C19_Witness ==
    /\ Listed
    /\ resp.page = 2
    /\ resp.per_page = 2
    /\ resp.total = 3
    /\ Len(resp.list) = 1
    /\ resp.totalPages = 2

\* C21: Repository.get and Repository.list with include_sensitive=False
\* succeed on every stored user and return it without the hashed password,
\* with include_sensitive=True they return it whole, and a signup through
\* AuthService, which lists with include_sensitive=False, is never answered
\* with a store failure.
C21_SensitiveFieldsStripped ==
    /\ \A i \in DOMAIN users :
           /\ "password" \notin DOMAIN ConvertMongoDoc(users[i], FALSE)
           /\ RepoList({i}, TRUE).ok
           /\ RepoGet(SubjectOf(i), TRUE).ok
           /\ RepoList({i}, FALSE).ok
           /\ RepoGet(SubjectOf(i), FALSE).ok
    /\ (resp.op = "signup" /\ resp.stack = "service") => resp.status # 500

\* C22: a save whose extension is not in the configured allow-list or whose
\* payload is larger than MAX_FILE_SIZE is answered 400 with the blob store
\* unchanged; a payload of exactly MAX_FILE_SIZE with an allowed extension is
\* stored, with the owner in its metadata, when the store works.
C22_SaveValidatesBeforeWriting ==
    resp.op = "save" =>
        /\ (resp.ext \notin ALLOWED_EXTENSIONS \/ resp.size > MAX_FILE_SIZE) =>
               resp.status = 400 /\ blobs = resp.pre
        /\ (/\ resp.ext \in ALLOWED_EXTENSIONS
            /\ resp.size = MAX_FILE_SIZE
            /\ resp.store_ok) =>
               /\ resp.status = 200
               /\ resp.file_id \in blobs \ resp.pre
               /\ resp.metadata.user_id = resp.caller

\* C23: a request that carries a malformed id is answered 400, not 404 and
\* not 500, and leaves the store as it was: Repository.get, update and
\* delete, download_resume, and create_job_flow for each of its three ids
\* (an id is looked at once the lookups before it have found their document).
C23_MalformedIdIsValidationFailure ==
    /\ (resp.op \in {"repository_get", "repository_update",
                     "repository_delete", "download"}
            /\ resp.id = MalformedId) =>
           resp.status = 400
    /\ resp.op = "create_job_flow" =>
           LET has_resume ==
                   find_owned("resumes", resp.resume_id, resp.caller) # {}
               has_letter ==
                   find_owned("cover_letters", resp.cover_letter_id,
                              resp.caller) # {}
           IN  (\/ resp.resume_id = MalformedId
                \/ has_resume /\ resp.cover_letter_id = MalformedId
                \/ has_resume /\ has_letter
                      /\ resp.job_query_id = MalformedId) =>
                   resp.status = 400 /\ db["job_flows"] = resp.pre

\* C24: every call of analyze_file ends after at most MaxAttempts requests,
\* whatever the API answers; it sleeps only after a failed attempt that is
\* followed by another, 2^attempt seconds: 1 after the first, 2 after the
\* second, never after the third.
C24_BoundedAttemptsAndBackoff ==
    resp.op = "analyze_file" =>
        /\ resp.requests <= MaxAttempts
        /\ resp.supported => resp.requests >= 1
        /\ Len(resp.sleeps) = (IF resp.requests = 0 THEN 0
                                ELSE resp.requests - 1)
        /\ \A i \in DOMAIN resp.sleeps :
               /\ resp.sleeps[i] = 2 ^ (i - 1)
               /\ api.outcomes[i] # "200"

\* Three attempts failed: one second of sleep after the first, two after the
\* second, none after the third.
C24_Witness ==
    /\ resp.op = "analyze_file"
    /\ resp.requests = 3
    /\ resp.sleeps = <<1, 2>>
    /\ resp.status # 200

\* C25: analyze_file returns a result only when its last request was answered
\* with 200, and that request is the first one so answered; for an
\* unsupported extension it fails without a request, and otherwise it fails
\* when all MaxAttempts attempts have failed.
C25_ResultOnlyAfter200 ==
    resp.op = "analyze_file" =>
        IF resp.status = 200
        THEN /\ resp.supported
             /\ resp.requests >= 1
             /\ api.outcomes[resp.requests] = "200"
             /\ \A i \in 1..(resp.requests - 1) : api.outcomes[i] # "200"
        ELSE /\ resp.status \in {500, 504}
             /\ ~resp.supported => resp.requests = 0
             /\ resp.supported =>
                    /\ resp.requests = MaxAttempts
                    /\ \A i \in 1..MaxAttempts : api.outcomes[i] # "200"

\* A result came back from the second request after the first was answered
\* with 429.
C25_Witness ==
    /\ resp.op = "analyze_file"
    /\ resp.status = 200
    /\ resp.requests = 2
    /\ api.outcomes[1] = "429"

\* C26: in every reachable state each stored job flow's resume_id,
\* cover_letter_id and job_query_id name stored documents of the job flow's
\* user, whatever was created and deleted before.
C26_JobFlowReferencesStay ==
    \A f \in db["job_flows"] :
        /\ find_owned("resumes", f.resume_id, f.user_id) # {}
        /\ find_owned("cover_letters", f.cover_letter_id, f.user_id) # {}
        /\ find_owned("job_queries", f.job_query_id, f.user_id) # {}

C28_TokenKindsNotInterchangeable ==
    LET IssuedAs(tok, kind) == \E t \in issued : t.tok = tok /\ t.kind = kind
        Issued(tok) == \E t \in issued : t.tok = tok
    IN  /\ (resp.op = "refresh" /\ resp.stack = "core" /\ resp.status = 200
                /\ Issued(resp.token)) =>
               IssuedAs(resp.token, "refresh")
        /\ (resp.op = "current_user" /\ resp.status = 200
                /\ Issued(resp.token)) =>
               IssuedAs(resp.token, "access")

\* C29: update_resume_status by the owner of a stored resume succeeds for
\* every target status, the one the resume already has included.
C29_OwnerStatusUpdateSucceeds ==
    (/\ resp.op = "update_status"
     /\ resp.coll = "resumes"
     /\ \E d \in resp.pre : d.user_id = resp.caller) =>
        resp.status = 200

\* C30: the access token AuthService.refresh_access_token issues expires
\* ACCESS_TOKEN_EXPIRE_HOURS hours after its issue, as the one of signin.
C30_RefreshedTokenLivesHours ==
    (resp.op = "refresh" /\ resp.stack = "service" /\ resp.status = 200) =>
        resp.access.exp =
            Timestamp(now + Hours(Settings_ACCESS_TOKEN_EXPIRE_HOURS))

====
